---- MODULE Spec2Model ----
(***************************************************************************)
(* Geometry validation and slot-state engine of the VSEPR quiz.            *)
(*                                                                         *)
(* The module models the strict application (src/App.tsx): its React state *)
(* cells, its handlers, the per-molecule effect and the two asynchronous   *)
(* continuations (success message, hint), together with the static catalog *)
(* (constants).  Numbers that the source writes as decimals (tilt) are     *)
(* kept as tenths, so 0.5 is 5 and -0.8 is -8.                             *)
(***************************************************************************)
EXTENDS Integers, Sequences, FiniteSets, Bags, TLC

(***************************************************************************)
(* types.ts                                                                *)
(***************************************************************************)
SP == "sp"
SP2 == "sp2"
SP3 == "sp3"
SP3D == "sp3d"
SP3D2 == "sp3d2"

HybridizationType == {SP, SP2, SP3, SP3D, SP3D2}

EMPTY == "empty"
BOND == "bond"
LONE_PAIR == "lone_pair"

SlotType == {EMPTY, BOND, LONE_PAIR}

AXIAL == "axial"
EQUATORIAL == "equatorial"
GENERAL == "general"

OrbitalPositionType == {AXIAL, EQUATORIAL, GENERAL}

\* JavaScript null (selectedHybridization, feedback).
Null == "null"

(***************************************************************************)
(* constants: the catalog                                                  *)
(***************************************************************************)
GEOMETRY_NAMES ==
  [h \in HybridizationType |->
     CASE h = SP -> "Linear"
       [] h = SP2 -> "Trigonal Planar"
       [] h = SP3 -> "Tetrahedral"
       [] h = SP3D -> "Trigonal Bipyramidal"
       [] h = SP3D2 -> "Octahedral"]

\* Variant of MOLECULES whose chlorate entry leaves its lone pair out of the
\* steric number.
MOLECULES_ChlorateThree ==
  << [formula |-> "BeCl2", bondingPairs |-> 2, lonePairs |-> 0,
      stericNumber |-> 2, hybridization |-> SP],
     [formula |-> "BF3", bondingPairs |-> 3, lonePairs |-> 0,
      stericNumber |-> 3, hybridization |-> SP2],
     [formula |-> "SO2", bondingPairs |-> 2, lonePairs |-> 1,
      stericNumber |-> 3, hybridization |-> SP2],
     [formula |-> "CH4", bondingPairs |-> 4, lonePairs |-> 0,
      stericNumber |-> 4, hybridization |-> SP3],
     [formula |-> "NH3", bondingPairs |-> 3, lonePairs |-> 1,
      stericNumber |-> 4, hybridization |-> SP3],
     [formula |-> "H2O", bondingPairs |-> 2, lonePairs |-> 2,
      stericNumber |-> 4, hybridization |-> SP3],
     [formula |-> "PCl5", bondingPairs |-> 5, lonePairs |-> 0,
      stericNumber |-> 5, hybridization |-> SP3D],
     [formula |-> "XeF2", bondingPairs |-> 2, lonePairs |-> 3,
      stericNumber |-> 5, hybridization |-> SP3D,
      geometryRules |-> [lonePairsMustBe |-> EQUATORIAL]],
     [formula |-> "SF6", bondingPairs |-> 6, lonePairs |-> 0,
      stericNumber |-> 6, hybridization |-> SP3D2],
     [formula |-> "ClO3-", bondingPairs |-> 3, lonePairs |-> 1,
      stericNumber |-> 3, hybridization |-> SP3] >>

\* MOLECULES[i + 1] is the source's MOLECULES[i]; geometryRules is an
\* optional field, present on XeF2 only.
MOLECULES ==
  << [formula |-> "BeCl2", bondingPairs |-> 2, lonePairs |-> 0,
      stericNumber |-> 2, hybridization |-> SP],
     [formula |-> "BF3", bondingPairs |-> 3, lonePairs |-> 0,
      stericNumber |-> 3, hybridization |-> SP2],
     [formula |-> "SO2", bondingPairs |-> 2, lonePairs |-> 1,
      stericNumber |-> 3, hybridization |-> SP2],
     [formula |-> "CH4", bondingPairs |-> 4, lonePairs |-> 0,
      stericNumber |-> 4, hybridization |-> SP3],
     [formula |-> "NH3", bondingPairs |-> 3, lonePairs |-> 1,
      stericNumber |-> 4, hybridization |-> SP3],
     [formula |-> "H2O", bondingPairs |-> 2, lonePairs |-> 2,
      stericNumber |-> 4, hybridization |-> SP3],
     [formula |-> "PCl5", bondingPairs |-> 5, lonePairs |-> 0,
      stericNumber |-> 5, hybridization |-> SP3D],
     [formula |-> "XeF2", bondingPairs |-> 2, lonePairs |-> 3,
      stericNumber |-> 5, hybridization |-> SP3D,
      geometryRules |-> [lonePairsMustBe |-> EQUATORIAL]],
     [formula |-> "SF6", bondingPairs |-> 6, lonePairs |-> 0,
      stericNumber |-> 6, hybridization |-> SP3D2],
     [formula |-> "ClO3-", bondingPairs |-> 3, lonePairs |-> 1,
      stericNumber |-> 4, hybridization |-> SP3] >>

\* MOLECULES.length - 1
LastIndex == Len(MOLECULES) - 1

\* Variant of GEOMETRY_SLOTS whose octahedral template has five entries.
GEOMETRY_SLOTS_ShortOctahedral ==
  [h \in HybridizationType |->
     [i \in 1..(CASE h = SP -> 2
                  [] h = SP2 -> 3
                  [] h = SP3 -> 4
                  [] h = SP3D -> 5
                  [] h = SP3D2 -> 5) |->
        [angle |-> 0, tilt |-> 0, type |-> GENERAL]]]

\* tilt is in tenths.
GEOMETRY_SLOTS ==
  [h \in HybridizationType |->
     CASE h = SP ->
            << [angle |-> 0, tilt |-> 0, type |-> GENERAL],
               [angle |-> 180, tilt |-> 0, type |-> GENERAL] >>
       [] h = SP2 ->
            << [angle |-> 90, tilt |-> 0, type |-> GENERAL],
               [angle |-> 210, tilt |-> 0, type |-> GENERAL],
               [angle |-> 330, tilt |-> 0, type |-> GENERAL] >>
       [] h = SP3 ->
            << [angle |-> 90, tilt |-> 0, type |-> GENERAL],
               [angle |-> 210, tilt |-> 5, type |-> GENERAL],
               [angle |-> 330, tilt |-> 5, type |-> GENERAL],
               [angle |-> 270, tilt |-> -8, type |-> GENERAL] >>
       [] h = SP3D ->
            << [angle |-> 90, tilt |-> 0, type |-> AXIAL],
               [angle |-> 270, tilt |-> 0, type |-> AXIAL],
               [angle |-> 0, tilt |-> 5, type |-> EQUATORIAL],
               [angle |-> 120, tilt |-> 5, type |-> EQUATORIAL],
               [angle |-> 240, tilt |-> 5, type |-> EQUATORIAL] >>
       [] h = SP3D2 ->
            << [angle |-> 90, tilt |-> 0, type |-> AXIAL],
               [angle |-> 270, tilt |-> 0, type |-> AXIAL],
               [angle |-> 45, tilt |-> 3, type |-> EQUATORIAL],
               [angle |-> 135, tilt |-> 3, type |-> EQUATORIAL],
               [angle |-> 225, tilt |-> 3, type |-> EQUATORIAL],
               [angle |-> 315, tilt |-> 3, type |-> EQUATORIAL] >>]

(***************************************************************************)
(* State of the App component (useState cells), the provider requests in   *)
(* flight, and the verdict of the latest submit.                           *)
(***************************************************************************)
VARIABLES showIntro, currentIndex, selectedHybridization, currentSlots,
          feedback, score, isLoadingAI, isMuted, hasSubmitted, pending,
          lastVerdict, audioService, played

vars == <<showIntro, currentIndex, selectedHybridization, currentSlots,
          feedback, score, isLoadingAI, isMuted, hasSubmitted, pending,
          lastVerdict>>

(***************************************************************************)
(* State of the sound engine (class AudioEngine, exported as audioService):*)
(* audioService holds its private fields, played the outcome of the latest *)
(* sound-effect call.  The specifications of the App component leave the   *)
(* engine as constructed: its calls hand nothing back to the handlers.     *)
(***************************************************************************)
audioVars == <<audioService, played>>

\* private ctx: AudioContext | null = null
NoContext == "null"

\* AudioContext.state of a live context
ContextStates == {"running", "suspended"}

\* the field initialisers of AudioEngine; suspendTimers counts the
\* setTimeout callbacks of setMute that have not run yet
Constructed ==
  [ctx |-> NoContext, musicGain |-> FALSE, sfxGain |-> FALSE,
   isMuted |-> FALSE, isInitialized |-> FALSE, melodyTimer |-> FALSE,
   suspendTimers |-> 0]

\* no sound-effect call has been made
NothingPlayed == [call |-> "none", result |-> "none", voices |-> 0]

\* feedback === null
NullFeedback == [type |-> Null, message |-> Null]

\* const molecule = MOLECULES[currentIndex]
molecule == MOLECULES[currentIndex + 1]

isLastMolecule == currentIndex = LastIndex

\* Variant of NewSlots that numbers the slots from one.
NewSlots_OneBased(hyb) ==
  [i \in 1..Len(GEOMETRY_SLOTS[hyb]) |->
     [id |-> i,
      angle |-> GEOMETRY_SLOTS[hyb][i].angle,
      tilt |-> GEOMETRY_SLOTS[hyb][i].tilt,
      type |-> EMPTY,
      positionType |-> GEOMETRY_SLOTS[hyb][i].type]]

\* slotConfig.map((s, i) => ({id: i, ..., type: EMPTY, positionType: s.type}))
NewSlots(hyb) ==
  [i \in 1..Len(GEOMETRY_SLOTS[hyb]) |->
     [id |-> i - 1,
      angle |-> GEOMETRY_SLOTS[hyb][i].angle,
      tilt |-> GEOMETRY_SLOTS[hyb][i].tilt,
      type |-> EMPTY,
      positionType |-> GEOMETRY_SLOTS[hyb][i].type]]

\* Variant of NextType that toggles between empty and bond.
NextType_Toggle(t) == IF t = EMPTY THEN BOND ELSE EMPTY

\* Cycle: EMPTY -> BOND -> LONE_PAIR -> EMPTY
NextType(t) ==
  IF t = EMPTY THEN BOND
  ELSE IF t = BOND THEN LONE_PAIR
  ELSE EMPTY

\* Variant of CycleSlot that takes the id for a position counted from one.
CycleSlot_ByPosition(slots, id) ==
  [i \in 1..Len(slots) |->
     IF i # id THEN slots[i]
     ELSE [slots[i] EXCEPT !.type = NextType(slots[i].type)]]

\* Variant of CycleSlot that rebuilds the clicked slot without its position
\* kind.
CycleSlot_DropsPosition(slots, id) ==
  [i \in 1..Len(slots) |->
     IF slots[i].id # id THEN slots[i]
     ELSE [slots[i] EXCEPT !.type = NextType(slots[i].type),
                           !.positionType = GENERAL]]

\* prev.map(slot => slot.id !== id ? slot : {...slot, type: nextType})
CycleSlot(slots, id) ==
  [i \in 1..Len(slots) |->
     IF slots[i].id # id THEN slots[i]
     ELSE [slots[i] EXCEPT !.type = NextType(slots[i].type)]]

\* slots.filter(s => s.type === t).length
CountType(slots, t) == Cardinality({i \in 1..Len(slots) : slots[i].type = t})

HasPlacementRule(m) == "geometryRules" \in DOMAIN m

\* Variant of IncorrectlyPlacedLP with the comparison inverted.
IncorrectlyPlacedLP_Inverted(m, slots) ==
  \E i \in 1..Len(slots) :
     /\ slots[i].type = LONE_PAIR
     /\ slots[i].positionType = m.geometryRules.lonePairsMustBe

\* currentSlots.some(s => s.type === LONE_PAIR && s.positionType !== rule)
IncorrectlyPlacedLP(m, slots) ==
  \E i \in 1..Len(slots) :
     /\ slots[i].type = LONE_PAIR
     /\ slots[i].positionType # m.geometryRules.lonePairsMustBe

GeometryReason(m) ==
  "Incorrect Geometry. The stable shape is "
     \o GEOMETRY_NAMES[m.hybridization] \o "."

\* Variant of CountsReason that reports the bonds only.
CountsReason_BondsOnly(m) ==
  "Incorrect number of bonds. Expected " \o ToString(m.bondingPairs) \o "."

CountsReason(m) ==
  "Incorrect orbital contents. Expected " \o ToString(m.bondingPairs)
     \o " Bonds and " \o ToString(m.lonePairs) \o " Lone Pairs."

PlacementReason ==
  "Unstable arrangement! Lone pairs must be in equatorial positions to minimize repulsion."

\* Variant of Validate that checks the counts before the geometry.
Validate_CountsFirst(m, hyb, slots) ==
  IF CountType(slots, BOND) # m.bondingPairs
       \/ CountType(slots, LONE_PAIR) # m.lonePairs
    THEN [isCorrect |-> FALSE, failReason |-> CountsReason(m)]
  ELSE IF hyb # m.hybridization
    THEN [isCorrect |-> FALSE, failReason |-> GeometryReason(m)]
  ELSE IF HasPlacementRule(m) /\ IncorrectlyPlacedLP(m, slots)
    THEN [isCorrect |-> FALSE, failReason |-> PlacementReason]
  ELSE [isCorrect |-> TRUE, failReason |-> ""]

\* Variant of Validate that compares the bonds only.
Validate_BondsOnly(m, hyb, slots) ==
  IF hyb # m.hybridization
    THEN [isCorrect |-> FALSE, failReason |-> GeometryReason(m)]
  ELSE IF CountType(slots, BOND) # m.bondingPairs
    THEN [isCorrect |-> FALSE, failReason |-> CountsReason(m)]
  ELSE IF HasPlacementRule(m) /\ IncorrectlyPlacedLP(m, slots)
    THEN [isCorrect |-> FALSE, failReason |-> PlacementReason]
  ELSE [isCorrect |-> TRUE, failReason |-> ""]

\* Variant of Validate that holds every molecule to the equatorial rule.
Validate_RuleForAll(m, hyb, slots) ==
  IF hyb # m.hybridization
    THEN [isCorrect |-> FALSE, failReason |-> GeometryReason(m)]
  ELSE IF CountType(slots, BOND) # m.bondingPairs
          \/ CountType(slots, LONE_PAIR) # m.lonePairs
    THEN [isCorrect |-> FALSE, failReason |-> CountsReason(m)]
  ELSE IF \E i \in 1..Len(slots) :
             slots[i].type = LONE_PAIR /\ slots[i].positionType # EQUATORIAL
    THEN [isCorrect |-> FALSE, failReason |-> PlacementReason]
  ELSE [isCorrect |-> TRUE, failReason |-> ""]

\* Variant of Validate that compares the slots with one fixed arrangement:
\* the bonds on the lowest slots, the lone pairs after them.
Validate_AnswerKey(m, hyb, slots) ==
  IF hyb # m.hybridization
    THEN [isCorrect |-> FALSE, failReason |-> GeometryReason(m)]
  ELSE IF CountType(slots, BOND) # m.bondingPairs
          \/ CountType(slots, LONE_PAIR) # m.lonePairs
    THEN [isCorrect |-> FALSE, failReason |-> CountsReason(m)]
  ELSE IF \E i \in 1..Len(slots) :
             slots[i].type # (IF i <= m.bondingPairs THEN BOND ELSE LONE_PAIR)
    THEN [isCorrect |-> FALSE, failReason |-> PlacementReason]
  ELSE [isCorrect |-> TRUE, failReason |-> ""]

\* Variant of Validate whose verdict depends on the sound setting.
Validate_UnlessMuted(m, hyb, slots) ==
  IF hyb # m.hybridization
    THEN [isCorrect |-> FALSE, failReason |-> GeometryReason(m)]
  ELSE IF ~isMuted /\ (CountType(slots, BOND) # m.bondingPairs
                         \/ CountType(slots, LONE_PAIR) # m.lonePairs)
    THEN [isCorrect |-> FALSE, failReason |-> CountsReason(m)]
  ELSE IF HasPlacementRule(m) /\ IncorrectlyPlacedLP(m, slots)
    THEN [isCorrect |-> FALSE, failReason |-> PlacementReason]
  ELSE [isCorrect |-> TRUE, failReason |-> ""]

\* The validation logic of handleCheck: isCorrect and failReason.
\* Variant of Validate whose count check compares the lone pairs only.
Validate_LonePairsOnly(m, hyb, slots) ==
  IF hyb # m.hybridization
    THEN [isCorrect |-> FALSE, failReason |-> GeometryReason(m)]
  ELSE IF CountType(slots, LONE_PAIR) # m.lonePairs
    THEN [isCorrect |-> FALSE, failReason |-> CountsReason(m)]
  ELSE IF HasPlacementRule(m) /\ IncorrectlyPlacedLP(m, slots)
    THEN [isCorrect |-> FALSE, failReason |-> PlacementReason]
  ELSE [isCorrect |-> TRUE, failReason |-> ""]

Validate(m, hyb, slots) ==
  IF hyb # m.hybridization
    THEN [isCorrect |-> FALSE, failReason |-> GeometryReason(m)]
  ELSE IF CountType(slots, BOND) # m.bondingPairs
          \/ CountType(slots, LONE_PAIR) # m.lonePairs
    THEN [isCorrect |-> FALSE, failReason |-> CountsReason(m)]
  ELSE IF HasPlacementRule(m) /\ IncorrectlyPlacedLP(m, slots)
    THEN [isCorrect |-> FALSE, failReason |-> PlacementReason]
  ELSE [isCorrect |-> TRUE, failReason |-> ""]

\* The verdict a validation result stands for.
VerdictOf(m, r) ==
  IF r.isCorrect THEN "Correct"
  ELSE IF r.failReason = GeometryReason(m) THEN "WrongGeometry"
  ELSE IF r.failReason = CountsReason(m) THEN "WrongCounts"
  ELSE "WrongPlacement"

ErrorMessage(failReason) ==
  "Analysis Failed. " \o failReason \o " Proceed to next sample."

(***************************************************************************)
(* services/geminiService: what the two requests resolve to, by what the   *)
(* provider does.                                                          *)
(***************************************************************************)
\* API key absent; generateContent throws; it answers with text; it answers
\* with an empty or missing text.
ProviderOutcomes == {"no_key", "throws", "text", "no_text"}

\* response.text of a provider answer that carries text.
ProviderText == "<provider text>"

\* JavaScript undefined.
Undefined == "undefined"

getHint(o) ==
  IF o = "no_key"
    THEN "Gemini API Key is missing. Please check your configuration."
  ELSE IF o = "throws"
    THEN "Check the number of bonding regions and lone pairs around the central atom."
  ELSE IF o = "text" THEN ProviderText
  ELSE "Try calculating the steric number: bonding pairs + lone pairs."

\* the rejection of the promise an async function returns when it throws
Rejected == "rejected"

\* Variant of getSuccessMessage without the try/catch: the provider's
\* failure rejects the promise.
getSuccessMessage_Propagates(o) ==
  IF o = "no_key" THEN "Great job! That structure is stable."
  ELSE IF o = "throws" THEN Rejected
  ELSE IF o = "text" THEN ProviderText
  ELSE Undefined

getSuccessMessage(o) ==
  IF o = "no_key" THEN "Great job! That structure is stable."
  ELSE IF o = "throws" THEN "Excellent work! Structure stabilized."
  ELSE IF o = "text" THEN ProviderText
  ELSE Undefined

\* A request in flight: the call that awaits it, and whether the molecule the
\* call was made for (the molecule its closure captured) is still the one
\* shown.  The continuations never read the captured molecule; the flag is
\* that comparison, kept up to date when currentIndex changes.
Request(kind, fresh) == [kind |-> kind, fresh |-> fresh]

RequestKinds == {"hint", "success"}

AllRequests == {Request(k, f) : k \in RequestKinds, f \in BOOLEAN}

Outstanding == BagCardinality(pending)

OutstandingOf(b, k) ==
  CopiesIn(Request(k, TRUE), b) + CopiesIn(Request(k, FALSE), b)

\* The requests of b once the molecule shown has changed.
Stale(b) ==
  [r \in {Request(k, FALSE) : k \in {kk \in RequestKinds : OutstandingOf(b, kk) > 0}}
     |-> OutstandingOf(b, r.kind)]

(***************************************************************************)
(* Init: the state after construction and the mount run of the effect.     *)
(***************************************************************************)
Init ==
  /\ showIntro = TRUE
  /\ currentIndex = 0
  /\ selectedHybridization = Null
  /\ currentSlots = << >>
  /\ feedback = NullFeedback
  /\ score = 0
  /\ isLoadingAI = FALSE
  /\ isMuted = FALSE
  /\ hasSubmitted = FALSE
  /\ pending = EmptyBag
  /\ lastVerdict = "None"
  /\ audioService = Constructed
  /\ played = NothingPlayed

(***************************************************************************)
(* Handlers of src/App.tsx, each with the guard its own code states.       *)
(* lastVerdict records the verdict of the latest submit of the attempt.    *)
(***************************************************************************)
handleStartGame ==
  /\ showIntro' = FALSE
  /\ UNCHANGED <<audioService, played, currentIndex, selectedHybridization, currentSlots, feedback,
                 score, isLoadingAI, isMuted, hasSubmitted, pending,
                 lastVerdict>>

\* setIsMuted(!isMuted); audioService.setMute(!isMuted)
toggleMute ==
  /\ isMuted' = ~isMuted
  /\ UNCHANGED <<audioService, played, showIntro, currentIndex, selectedHybridization, currentSlots,
                 feedback, score, isLoadingAI, hasSubmitted, pending,
                 lastVerdict>>

\* Variant of handleHybridizationSelect that keeps the slots when the
\* hybridization selected is the one already selected.
handleHybridizationSelect_KeepsSame(hyb) ==
  IF hasSubmitted \/ hyb = selectedHybridization
    THEN UNCHANGED <<vars, audioVars>>
    ELSE /\ selectedHybridization' = hyb
         /\ currentSlots' = NewSlots(hyb)
         /\ feedback' = NullFeedback
         /\ UNCHANGED <<audioService, played, isMuted, showIntro, currentIndex, score, isLoadingAI,
                        hasSubmitted, pending, lastVerdict>>

handleHybridizationSelect(hyb) ==
  IF hasSubmitted
    THEN UNCHANGED <<vars, audioVars>>
    ELSE /\ selectedHybridization' = hyb
         /\ currentSlots' = NewSlots(hyb)
         /\ feedback' = NullFeedback
         /\ UNCHANGED <<audioService, played, isMuted, showIntro, currentIndex, score, isLoadingAI,
                        hasSubmitted, pending, lastVerdict>>

\* Variant of handleSlotClick without the lock in its guard.
handleSlotClick_NoLock(id) ==
  IF selectedHybridization = Null
    THEN UNCHANGED <<vars, audioVars>>
    ELSE /\ currentSlots' = CycleSlot(currentSlots, id)
         /\ feedback' = NullFeedback
         /\ UNCHANGED <<audioService, played, isMuted, showIntro, currentIndex, selectedHybridization, score,
                        isLoadingAI, hasSubmitted, pending, lastVerdict>>

\* Variant of handleSlotClick that waits for the provider: it returns while
\* a request is loading.
handleSlotClick_WhileIdle(id) ==
  IF selectedHybridization = Null \/ hasSubmitted \/ isLoadingAI
    THEN UNCHANGED <<vars, audioVars>>
    ELSE /\ currentSlots' = CycleSlot(currentSlots, id)
         /\ feedback' = NullFeedback
         /\ UNCHANGED <<audioService, played, isMuted, showIntro, currentIndex, selectedHybridization, score,
                        isLoadingAI, hasSubmitted, pending, lastVerdict>>

handleSlotClick(id) ==
  IF selectedHybridization = Null \/ hasSubmitted
    THEN UNCHANGED <<vars, audioVars>>
    ELSE /\ currentSlots' = CycleSlot(currentSlots, id)
         /\ feedback' = NullFeedback
         /\ UNCHANGED <<audioService, played, isMuted, showIntro, currentIndex, selectedHybridization, score,
                        isLoadingAI, hasSubmitted, pending, lastVerdict>>

\* Variant of handleCheck that locks the attempt on a Correct verdict only.
handleCheck_LockOnSuccess ==
  IF selectedHybridization = Null
    THEN /\ feedback' = [type |-> "error",
                         message |-> "Select a geometry shape first."]
         /\ lastVerdict' = "MissingSelection"
         /\ UNCHANGED <<audioService, played, isMuted, showIntro, currentIndex, selectedHybridization,
                        currentSlots, score, isLoadingAI, hasSubmitted, pending>>
    ELSE LET r == Validate(molecule, selectedHybridization, currentSlots) IN
         /\ lastVerdict' = VerdictOf(molecule, r)
         /\ IF r.isCorrect
              THEN /\ hasSubmitted' = TRUE
                   /\ score' = score + 100
                   /\ isLoadingAI' = TRUE
                   /\ pending' = pending (+) SetToBag({Request("success", TRUE)})
                   /\ UNCHANGED feedback
              ELSE /\ feedback' = [type |-> "error",
                                   message |-> ErrorMessage(r.failReason)]
                   /\ UNCHANGED <<audioService, played, score, isLoadingAI, pending, hasSubmitted>>
         /\ UNCHANGED <<audioService, played, isMuted, showIntro, currentIndex, selectedHybridization,
                        currentSlots>>

\* Variant of handleCheck that locks the attempt before the pre-check.
handleCheck_LockFirst ==
  IF selectedHybridization = Null
    THEN /\ hasSubmitted' = TRUE
         /\ feedback' = [type |-> "error",
                         message |-> "Select a geometry shape first."]
         /\ lastVerdict' = "MissingSelection"
         /\ UNCHANGED <<audioService, played, isMuted, showIntro, currentIndex, selectedHybridization,
                        currentSlots, score, isLoadingAI, pending>>
    ELSE LET r == Validate(molecule, selectedHybridization, currentSlots) IN
         /\ hasSubmitted' = TRUE
         /\ lastVerdict' = VerdictOf(molecule, r)
         /\ IF r.isCorrect
              THEN /\ score' = score + 100
                   /\ isLoadingAI' = TRUE
                   /\ pending' = pending (+) SetToBag({Request("success", TRUE)})
                   /\ UNCHANGED feedback
              ELSE /\ feedback' = [type |-> "error",
                                   message |-> ErrorMessage(r.failReason)]
                   /\ UNCHANGED <<audioService, played, score, isLoadingAI, pending>>
         /\ UNCHANGED <<audioService, played, isMuted, showIntro, currentIndex, selectedHybridization,
                        currentSlots>>

\* Variant of handleCheck that clears the attempt when the verdict is a
\* failure.
handleCheck_ClearsOnFail ==
  IF selectedHybridization = Null
    THEN /\ feedback' = [type |-> "error",
                         message |-> "Select a geometry shape first."]
         /\ lastVerdict' = "MissingSelection"
         /\ UNCHANGED <<audioService, played, isMuted, showIntro, currentIndex, selectedHybridization,
                        currentSlots, score, isLoadingAI, hasSubmitted, pending>>
    ELSE LET r == Validate(molecule, selectedHybridization, currentSlots) IN
         /\ hasSubmitted' = TRUE
         /\ lastVerdict' = VerdictOf(molecule, r)
         /\ IF r.isCorrect
              THEN /\ score' = score + 100
                   /\ isLoadingAI' = TRUE
                   /\ pending' = pending (+) SetToBag({Request("success", TRUE)})
                   /\ UNCHANGED <<audioService, played, feedback, selectedHybridization, currentSlots>>
              ELSE /\ feedback' = [type |-> "error",
                                   message |-> ErrorMessage(r.failReason)]
                   /\ selectedHybridization' = Null
                   /\ currentSlots' = << >>
                   /\ UNCHANGED <<audioService, played, score, isLoadingAI, pending>>
         /\ UNCHANGED <<audioService, played, isMuted, showIntro, currentIndex>>

handleCheck ==
  IF selectedHybridization = Null
    THEN /\ feedback' = [type |-> "error",
                         message |-> "Select a geometry shape first."]
         /\ lastVerdict' = "MissingSelection"
         /\ UNCHANGED <<audioService, played, isMuted, showIntro, currentIndex, selectedHybridization,
                        currentSlots, score, isLoadingAI, hasSubmitted, pending>>
    ELSE LET r == Validate(molecule, selectedHybridization, currentSlots) IN
         /\ hasSubmitted' = TRUE
         /\ lastVerdict' = VerdictOf(molecule, r)
         /\ IF r.isCorrect
              THEN /\ score' = score + 100
                   /\ isLoadingAI' = TRUE
                   /\ pending' = pending (+) SetToBag({Request("success", TRUE)})
                   /\ UNCHANGED feedback
              ELSE /\ feedback' = [type |-> "error",
                                   message |-> ErrorMessage(r.failReason)]
                   /\ UNCHANGED <<audioService, played, score, isLoadingAI, pending>>
         /\ UNCHANGED <<audioService, played, isMuted, showIntro, currentIndex, selectedHybridization,
                        currentSlots>>

\* Variant of ResolveSuccess that awards the points when the message arrives.
ResolveSuccess_Awards(r, o) ==
  /\ BagIn(r, pending)
  /\ r.kind = "success"
  /\ pending' = pending (-) SetToBag({r})
  /\ isLoadingAI' = FALSE
  /\ score' = score + 100
  /\ feedback' = [type |-> "success", message |-> getSuccessMessage(o)]
  /\ UNCHANGED <<audioService, played, isMuted, showIntro, currentIndex, selectedHybridization, currentSlots,
                 hasSubmitted, lastVerdict>>

\* The continuation of handleCheck after await getSuccessMessage(molecule).
ResolveSuccess(r, o) ==
  /\ BagIn(r, pending)
  /\ r.kind = "success"
  /\ pending' = pending (-) SetToBag({r})
  /\ isLoadingAI' = FALSE
  /\ feedback' = [type |-> "success", message |-> getSuccessMessage(o)]
  /\ UNCHANGED <<audioService, played, isMuted, showIntro, currentIndex, selectedHybridization, currentSlots,
                 score, hasSubmitted, lastVerdict>>

handleAIHint ==
  /\ isLoadingAI' = TRUE
  /\ pending' = pending (+) SetToBag({Request("hint", TRUE)})
  /\ UNCHANGED <<audioService, played, isMuted, showIntro, currentIndex, selectedHybridization, currentSlots,
                 feedback, score, hasSubmitted, lastVerdict>>

\* The continuation of handleAIHint after await getHint(molecule).
ResolveHint(r, o) ==
  /\ BagIn(r, pending)
  /\ r.kind = "hint"
  /\ pending' = pending (-) SetToBag({r})
  /\ feedback' = [type |-> "info", message |-> getHint(o)]
  /\ isLoadingAI' = FALSE
  /\ UNCHANGED <<audioService, played, isMuted, showIntro, currentIndex, selectedHybridization, currentSlots,
                 score, hasSubmitted, lastVerdict>>

\* Variant of handleNext whose change of currentIndex triggers no effect.
handleNext_NoEffect ==
  IF currentIndex < LastIndex
    THEN /\ currentIndex' = currentIndex + 1
         /\ pending' = Stale(pending)
         /\ UNCHANGED <<audioService, played, isMuted, showIntro, selectedHybridization, currentSlots,
                        feedback, score, isLoadingAI, hasSubmitted, lastVerdict>>
    ELSE /\ feedback' = [type |-> "info",
                         message |-> "All samples analyzed. Refresh to restart protocol."]
         /\ UNCHANGED <<audioService, played, isMuted, showIntro, currentIndex, selectedHybridization,
                        currentSlots, score, isLoadingAI, hasSubmitted, pending,
                        lastVerdict>>

\* Variant of handleNext that starts over after the last molecule.
handleNext_Wraps ==
  /\ currentIndex' = IF currentIndex < LastIndex THEN currentIndex + 1 ELSE 0
  /\ selectedHybridization' = Null
  /\ currentSlots' = << >>
  /\ feedback' = NullFeedback
  /\ hasSubmitted' = FALSE
  /\ lastVerdict' = "None"
  /\ pending' = Stale(pending)
  /\ UNCHANGED <<audioService, played, isMuted, showIntro, score, isLoadingAI>>

\* Variant of handleNext that waits for the provider: it returns while a
\* request is loading.
handleNext_WhileIdle ==
  IF isLoadingAI
    THEN UNCHANGED <<vars, audioVars>>
  ELSE IF currentIndex < LastIndex
    THEN /\ currentIndex' = currentIndex + 1
         /\ selectedHybridization' = Null
         /\ currentSlots' = << >>
         /\ feedback' = NullFeedback
         /\ hasSubmitted' = FALSE
         /\ lastVerdict' = "None"
         /\ pending' = Stale(pending)
         /\ UNCHANGED <<audioService, played, isMuted, showIntro, score, isLoadingAI>>
    ELSE /\ feedback' = [type |-> "info",
                         message |-> "All samples analyzed. Refresh to restart protocol."]
         /\ UNCHANGED <<audioService, played, isMuted, showIntro, currentIndex, selectedHybridization,
                        currentSlots, score, isLoadingAI, hasSubmitted, pending,
                        lastVerdict>>

\* Variant of handleNext that clears the attempt on the last molecule too.
handleNext_ResetsLast ==
  IF currentIndex < LastIndex
    THEN /\ currentIndex' = currentIndex + 1
         /\ selectedHybridization' = Null
         /\ currentSlots' = << >>
         /\ feedback' = NullFeedback
         /\ hasSubmitted' = FALSE
         /\ lastVerdict' = "None"
         /\ pending' = Stale(pending)
         /\ UNCHANGED <<audioService, played, isMuted, showIntro, score, isLoadingAI>>
    ELSE /\ feedback' = [type |-> "info",
                         message |-> "All samples analyzed. Refresh to restart protocol."]
         /\ selectedHybridization' = Null
         /\ currentSlots' = << >>
         /\ hasSubmitted' = FALSE
         /\ lastVerdict' = "None"
         /\ UNCHANGED <<audioService, played, isMuted, showIntro, currentIndex, score, isLoadingAI, pending>>

\* handleNext, with the run of the effect that its change of currentIndex
\* triggers.
handleNext ==
  IF currentIndex < LastIndex
    THEN /\ currentIndex' = currentIndex + 1
         /\ selectedHybridization' = Null
         /\ currentSlots' = << >>
         /\ feedback' = NullFeedback
         /\ hasSubmitted' = FALSE
         /\ lastVerdict' = "None"
         /\ pending' = Stale(pending)
         /\ UNCHANGED <<audioService, played, isMuted, showIntro, score, isLoadingAI>>
    ELSE /\ feedback' = [type |-> "info",
                         message |-> "All samples analyzed. Refresh to restart protocol."]
         /\ UNCHANGED <<audioService, played, isMuted, showIntro, currentIndex, selectedHybridization,
                        currentSlots, score, isLoadingAI, hasSubmitted, pending,
                        lastVerdict>>

\* Variant of handleReset that clears the selection and keeps the slots.
handleReset_KeepsSlots ==
  IF hasSubmitted
    THEN UNCHANGED <<vars, audioVars>>
    ELSE /\ selectedHybridization' = Null
         /\ feedback' = NullFeedback
         /\ UNCHANGED <<audioService, played, isMuted, showIntro, currentIndex, currentSlots, score,
                        isLoadingAI, hasSubmitted, pending, lastVerdict>>

\* Variant of handleReset without the lock in its guard.
handleReset_NoLock ==
  /\ selectedHybridization' = Null
  /\ currentSlots' = << >>
  /\ feedback' = NullFeedback
  /\ UNCHANGED <<audioService, played, isMuted, showIntro, currentIndex, score, isLoadingAI,
                 hasSubmitted, pending, lastVerdict>>

handleReset ==
  IF hasSubmitted
    THEN UNCHANGED <<vars, audioVars>>
    ELSE /\ selectedHybridization' = Null
         /\ currentSlots' = << >>
         /\ feedback' = NullFeedback
         /\ UNCHANGED <<audioService, played, isMuted, showIntro, currentIndex, score, isLoadingAI,
                        hasSubmitted, pending, lastVerdict>>

(***************************************************************************)
(* Bounds of the exploration.                                              *)
(***************************************************************************)
\* Provider requests that may be outstanding at once.
MaxPending == 1

\* Cycle steps a learner spends on the slots of a geometry that is not the
\* molecule's (whatever they hold, the verdict is the one of the geometry).
MaxOffClicks == 1

\* Score up to which handlers invoked directly keep awarding points.
MaxScore == 100

\* Provider requests that may overlap in the exploration of the requests'
\* interleavings.
MaxOverlap == 2

\* Molecule index up to which the interleavings are explored.
MaxAsyncIndex == 1

\* Scoring submits the variant is let make on a molecule beyond the first.
MaxReplays == 1

\* Molecule index up to which the variant is explored.
MaxVariantIndex == 7

\* setMute timers awaiting their 300 ms
MaxSuspendTimers == 3

\* Cycle steps that build a configuration from empty slots.
Filled(slots) == CountType(slots, BOND) + 2 * CountType(slots, LONE_PAIR)

ClickWithinBounds ==
  selectedHybridization # Null /\ selectedHybridization # molecule.hybridization
     => Filled(currentSlots) < MaxOffClicks

CheckWithinBounds ==
  selectedHybridization # Null
     /\ Validate(molecule, selectedHybridization, currentSlots).isCorrect
     => Outstanding < MaxPending

(***************************************************************************)
(* The application: the handlers behind the view of src/App.tsx, which     *)
(* decides the controls that are rendered and enabled.                     *)
(***************************************************************************)
\* ids of the lobes the visualizer renders
SlotIds == {currentSlots[i].id : i \in 1..Len(currentSlots)}

StartGame == showIntro /\ handleStartGame

\* the header's sound button, which the intro overlay covers
ToggleMute == ~showIntro /\ toggleMute

Select ==
  \E hyb \in HybridizationType :
     ~showIntro /\ ~hasSubmitted /\ handleHybridizationSelect(hyb)

SlotClick ==
  \E id \in SlotIds :
     /\ ~showIntro /\ selectedHybridization # Null
     /\ ClickWithinBounds
     /\ handleSlotClick(id)

\* Variant of Check with Verify rendered after the lock too.
Check_NoGate ==
  /\ ~showIntro /\ selectedHybridization # Null
  /\ CheckWithinBounds
  /\ handleCheck

\* Variant of Check with Verify rendered again after a failed verdict.
Check_RetryOnFail ==
  /\ ~showIntro /\ selectedHybridization # Null
  /\ (hasSubmitted => lastVerdict # "Correct")
  /\ CheckWithinBounds
  /\ handleCheck

Check ==
  /\ ~showIntro /\ ~hasSubmitted /\ selectedHybridization # Null
  /\ CheckWithinBounds
  /\ handleCheck

Reset == ~showIntro /\ ~hasSubmitted /\ handleReset

\* Variant of NextSample with Next Sample rendered before the lock too.
NextSample_Always == ~showIntro /\ handleNext

NextSample == ~showIntro /\ hasSubmitted /\ handleNext

Hint ==
  /\ ~showIntro /\ ~(isLoadingAI \/ hasSubmitted)
  /\ Outstanding < MaxPending
  /\ handleAIHint

SuccessArrives ==
  \E r \in AllRequests, o \in ProviderOutcomes : ResolveSuccess(r, o)

HintArrives ==
  \E r \in AllRequests, o \in ProviderOutcomes : ResolveHint(r, o)

Next ==
  \/ StartGame
  \/ ToggleMute
  \/ Select
  \/ SlotClick
  \/ Check
  \/ Reset
  \/ NextSample
  \/ Hint
  \/ SuccessArrives
  \/ HintArrives

Spec == Init /\ [][Next]_vars

(***************************************************************************)
(* The handlers invoked directly, in any state and with any argument,      *)
(* without the view in front of them.                                      *)
(***************************************************************************)
\* slot ids a caller may pass: every id of the largest template, and one
\* that no template has
ClickIds == 0..Len(GEOMETRY_SLOTS[SP3D2])

CallStartGame == handleStartGame

CallToggleMute == toggleMute

CallSelect == \E hyb \in HybridizationType : handleHybridizationSelect(hyb)

CallSlotClick == \E id \in ClickIds : ClickWithinBounds /\ handleSlotClick(id)

CallCheck ==
  /\ CheckWithinBounds
  /\ (selectedHybridization # Null
        /\ Validate(molecule, selectedHybridization, currentSlots).isCorrect
        => score < MaxScore)
  /\ handleCheck

CallReset == handleReset

CallNext == handleNext

CallHint == Outstanding < MaxPending /\ handleAIHint

NextHandlers ==
  \/ CallStartGame
  \/ CallToggleMute
  \/ CallSelect
  \/ CallSlotClick
  \/ CallCheck
  \/ CallReset
  \/ CallNext
  \/ CallHint
  \/ SuccessArrives
  \/ HintArrives

SpecHandlers == Init /\ [][NextHandlers]_vars

(***************************************************************************)
(* Evaluation alone: one submit on every molecule, selection and slot      *)
(* configuration.  Each initial state is the unlocked attempt a learner    *)
(* reaches by failing the earlier molecules, then selecting and cycling.   *)
(***************************************************************************)
\* every assignment of contents to the slots of a template
Configurations(hyb) ==
  {[i \in 1..Len(NewSlots(hyb)) |-> [NewSlots(hyb)[i] EXCEPT !.type = c[i]]] :
     c \in [1..Len(NewSlots(hyb)) -> SlotType]}

InitEval ==
  /\ showIntro = FALSE
  /\ currentIndex \in 0..LastIndex
  /\ selectedHybridization \in HybridizationType
  /\ currentSlots \in Configurations(selectedHybridization)
  /\ feedback = NullFeedback
  /\ score = 0
  /\ isLoadingAI = FALSE
  /\ isMuted \in BOOLEAN
  /\ hasSubmitted = FALSE
  /\ pending = EmptyBag
  /\ lastVerdict = "None"
  /\ audioService = Constructed
  /\ played = NothingPlayed

Evaluate == ~hasSubmitted /\ handleCheck

NextEval ==
  \/ Evaluate
  \/ SuccessArrives

SpecEval == InitEval /\ [][NextEval]_vars

(***************************************************************************)
(* The slot engine alone: selecting, cycling and resetting on an open      *)
(* attempt, with any slot id passed to the click handler.  Each initial    *)
(* state is the fresh attempt on one of the molecules.                     *)
(***************************************************************************)
InitSlots ==
  /\ showIntro = FALSE
  /\ currentIndex \in 0..LastIndex
  /\ selectedHybridization = Null
  /\ currentSlots = << >>
  /\ feedback = NullFeedback
  /\ score = 0
  /\ isLoadingAI = FALSE
  /\ isMuted = FALSE
  /\ hasSubmitted = FALSE
  /\ pending = EmptyBag
  /\ lastVerdict = "None"
  /\ audioService = Constructed
  /\ played = NothingPlayed

SlotsSelect == \E hyb \in HybridizationType : handleHybridizationSelect(hyb)

SlotsClick == \E id \in ClickIds : handleSlotClick(id)

SlotsReset == handleReset

NextSlots ==
  \/ SlotsSelect
  \/ SlotsClick
  \/ SlotsReset

SpecSlots == InitSlots /\ [][NextSlots]_vars

(***************************************************************************)
(* The application on its first molecules, with provider requests that     *)
(* overlap: a hint requested before a correct submit, and requests left    *)
(* over from the molecule before.                                          *)
(***************************************************************************)
AsyncCheck ==
  /\ ~showIntro /\ ~hasSubmitted /\ selectedHybridization # Null
  /\ (Validate(molecule, selectedHybridization, currentSlots).isCorrect
        => Outstanding < MaxOverlap)
  /\ handleCheck

AsyncNext ==
  /\ ~showIntro /\ hasSubmitted
  /\ currentIndex < MaxAsyncIndex
  /\ handleNext

AsyncHint ==
  /\ ~showIntro /\ ~(isLoadingAI \/ hasSubmitted)
  /\ Outstanding < MaxOverlap
  /\ handleAIHint

NextAsync ==
  \/ StartGame
  \/ Select
  \/ SlotClick
  \/ AsyncCheck
  \/ Reset
  \/ AsyncNext
  \/ AsyncHint
  \/ SuccessArrives
  \/ HintArrives

SpecAsync == Init /\ [][NextAsync]_vars

(***************************************************************************)
(* The alternate variant of the app (src/unnamed/part_001): it has no      *)
(* attempt lock, so hasSubmitted keeps its initial value, and its view     *)
(* gates on feedback.type = 'success' instead.  handleStartGame,           *)
(* handleAIHint and the continuations after getSuccessMessage and getHint  *)
(* read as in src/App.tsx.                                                 *)
(***************************************************************************)
VariantRequestKinds == {"hint", "success", "placement"}

VariantRequests == {Request(k, f) : k \in VariantRequestKinds, f \in BOOLEAN}

\* The requests of b once the molecule shown has changed.
VariantStale(b) ==
  [r \in {Request(k, FALSE) :
            k \in {kk \in VariantRequestKinds : OutstandingOf(b, kk) > 0}}
     |-> OutstandingOf(b, r.kind)]

Variant_handleHybridizationSelect(hyb) ==
  /\ selectedHybridization' = hyb
  /\ currentSlots' = NewSlots(hyb)
  /\ feedback' = NullFeedback
  /\ UNCHANGED <<audioService, played, isMuted, showIntro, currentIndex, score, isLoadingAI,
                 hasSubmitted, pending, lastVerdict>>

Variant_handleSlotClick(id) ==
  IF selectedHybridization = Null
    THEN UNCHANGED <<vars, audioVars>>
    ELSE /\ currentSlots' = CycleSlot(currentSlots, id)
         /\ feedback' = NullFeedback
         /\ UNCHANGED <<audioService, played, isMuted, showIntro, currentIndex, selectedHybridization, score,
                        isLoadingAI, hasSubmitted, pending, lastVerdict>>

\* handleCheck of the variant, up to its await.
Variant_handleCheck ==
  IF selectedHybridization = Null
    THEN /\ feedback' = [type |-> "error",
                         message |-> "Select a geometry shape first."]
         /\ lastVerdict' = "MissingSelection"
         /\ UNCHANGED <<audioService, played, isMuted, showIntro, currentIndex, selectedHybridization,
                        currentSlots, score, isLoadingAI, hasSubmitted, pending>>
  ELSE IF selectedHybridization # molecule.hybridization
    THEN /\ feedback' = [type |-> "error",
                         message |-> "Incorrect Geometry. Count the steric number (Bonding + Lone Pairs)."]
         /\ lastVerdict' = "WrongGeometry"
         /\ UNCHANGED <<audioService, played, isMuted, showIntro, currentIndex, selectedHybridization,
                        currentSlots, score, isLoadingAI, hasSubmitted, pending>>
  ELSE IF CountType(currentSlots, BOND) # molecule.bondingPairs
    THEN /\ feedback' = [type |-> "error",
                         message |-> "Incorrect number of bonds. Expected "
                                        \o ToString(molecule.bondingPairs) \o "."]
         /\ lastVerdict' = "WrongCounts"
         /\ UNCHANGED <<audioService, played, isMuted, showIntro, currentIndex, selectedHybridization,
                        currentSlots, score, isLoadingAI, hasSubmitted, pending>>
  ELSE IF CountType(currentSlots, LONE_PAIR) # molecule.lonePairs
    THEN /\ feedback' = [type |-> "error",
                         message |-> "Incorrect number of lone pairs. Expected "
                                        \o ToString(molecule.lonePairs) \o "."]
         /\ lastVerdict' = "WrongCounts"
         /\ UNCHANGED <<audioService, played, isMuted, showIntro, currentIndex, selectedHybridization,
                        currentSlots, score, isLoadingAI, hasSubmitted, pending>>
  ELSE IF HasPlacementRule(molecule) /\ IncorrectlyPlacedLP(molecule, currentSlots)
    THEN /\ feedback' = [type |-> "error",
                         message |-> "Destabilized! Lone pairs repel strongly. In Trigonal Bipyramidal geometry, where is there more space?"]
         /\ isLoadingAI' = TRUE
         /\ pending' = pending (+) SetToBag({Request("placement", TRUE)})
         /\ lastVerdict' = "WrongPlacement"
         /\ UNCHANGED <<audioService, played, isMuted, showIntro, currentIndex, selectedHybridization,
                        currentSlots, score, hasSubmitted>>
  ELSE /\ score' = score + 100
       /\ isLoadingAI' = TRUE
       /\ pending' = pending (+) SetToBag({Request("success", TRUE)})
       /\ lastVerdict' = "Correct"
       /\ UNCHANGED <<audioService, played, isMuted, showIntro, currentIndex, selectedHybridization,
                      currentSlots, feedback, hasSubmitted>>

\* The continuation of the variant's handleCheck after await getHint(molecule,
\* "Placed lone pair in axial position instead of equatorial.").
Variant_ResolvePlacementHint(r, o) ==
  /\ BagIn(r, pending)
  /\ r.kind = "placement"
  /\ pending' = pending (-) SetToBag({r})
  /\ feedback' = [type |-> "error", message |-> getHint(o)]
  /\ isLoadingAI' = FALSE
  /\ UNCHANGED <<audioService, played, isMuted, showIntro, currentIndex, selectedHybridization, currentSlots,
                 score, hasSubmitted, lastVerdict>>

\* handleNext of the variant, with the run of the effect that its change of
\* currentIndex triggers.
Variant_handleNext ==
  IF currentIndex < LastIndex
    THEN /\ currentIndex' = currentIndex + 1
         /\ selectedHybridization' = Null
         /\ currentSlots' = << >>
         /\ feedback' = NullFeedback
         /\ lastVerdict' = "None"
         /\ pending' = VariantStale(pending)
         /\ UNCHANGED <<audioService, played, isMuted, showIntro, score, isLoadingAI, hasSubmitted>>
    ELSE UNCHANGED <<vars, audioVars>>

Variant_handleReset ==
  /\ selectedHybridization' = Null
  /\ currentSlots' = << >>
  /\ feedback' = NullFeedback
  /\ UNCHANGED <<audioService, played, isMuted, showIntro, currentIndex, score, isLoadingAI,
                 hasSubmitted, pending, lastVerdict>>

\* the variant's gate: the success feedback is shown
Succeeded == feedback.type = "success"

\* the submit would be answered Correct
VariantCorrect ==
  /\ selectedHybridization = molecule.hybridization
  /\ CountType(currentSlots, BOND) = molecule.bondingPairs
  /\ CountType(currentSlots, LONE_PAIR) = molecule.lonePairs
  /\ ~(HasPlacementRule(molecule) /\ IncorrectlyPlacedLP(molecule, currentSlots))

\* the submit would start a request
VariantAwaits ==
  /\ selectedHybridization = molecule.hybridization
  /\ CountType(currentSlots, BOND) = molecule.bondingPairs
  /\ CountType(currentSlots, LONE_PAIR) = molecule.lonePairs

VariantSelect ==
  \E hyb \in HybridizationType :
     ~showIntro /\ ~Succeeded /\ Variant_handleHybridizationSelect(hyb)

VariantSlotClick ==
  \E id \in SlotIds :
     /\ ~showIntro /\ selectedHybridization # Null
     /\ ClickWithinBounds
     /\ Variant_handleSlotClick(id)

VariantCheck ==
  /\ ~showIntro /\ ~Succeeded
  /\ VariantAwaits => Outstanding < MaxOverlap
  /\ VariantCorrect => score < 100 * (currentIndex + 1 + MaxReplays)
  /\ Variant_handleCheck

VariantReset == ~showIntro /\ ~Succeeded /\ Variant_handleReset

VariantNext ==
  /\ ~showIntro /\ Succeeded
  /\ currentIndex < MaxVariantIndex
  /\ Variant_handleNext

VariantHint ==
  /\ ~showIntro /\ ~(isLoadingAI \/ Succeeded)
  /\ Outstanding < MaxOverlap
  /\ handleAIHint

VariantSuccessArrives ==
  \E r \in VariantRequests, o \in ProviderOutcomes : ResolveSuccess(r, o)

VariantHintArrives ==
  \E r \in VariantRequests, o \in ProviderOutcomes : ResolveHint(r, o)

VariantPlacementHintArrives ==
  \E r \in VariantRequests, o \in ProviderOutcomes : Variant_ResolvePlacementHint(r, o)

NextVariant ==
  \/ StartGame
  \/ VariantSelect
  \/ VariantSlotClick
  \/ VariantCheck
  \/ VariantReset
  \/ VariantNext
  \/ VariantHint
  \/ VariantSuccessArrives
  \/ VariantHintArrives
  \/ VariantPlacementHintArrives

SpecVariant == Init /\ [][NextVariant]_vars

(***************************************************************************)
(* The sound engine, src/unnamed/part_003.  A gain node is modelled by     *)
(* whether the field holds one; a sound-effect call records in played how  *)
(* it ended ("returned" or "raised") and how many oscillators it started.  *)
(* Every caller is covered: the actions below invoke the public methods    *)
(* in any order, and the timers run at any later moment.                   *)
(***************************************************************************)
\* new AudioContextClass() yields a context in one of its states, or throws
\* where the browser has no Web Audio support
InitOutcomes == ContextStates \cup {"unsupported"}

SoundEffects == {"playClick", "playSelect", "playSuccess", "playError"}

\* notes = [523.25, 659.25, 783.99, 1046.50] in playSuccess
SuccessNotes == 4

\* init(): returns when already initialized; a throw inside the try block
\* is caught and leaves every field as it was
init(outcome) ==
  /\ audioService' =
       IF audioService.isInitialized \/ outcome = "unsupported"
       THEN audioService
       ELSE [audioService EXCEPT !.ctx = outcome, !.musicGain = TRUE,
                                 !.sfxGain = TRUE, !.isInitialized = TRUE]
  /\ UNCHANGED played

\* scheduleNextNote(): nothing while muted or without a context, else a
\* note sounds and the next one is scheduled
scheduleNextNote(engine) ==
  IF engine.isMuted \/ engine.ctx = NoContext
  THEN engine
  ELSE [engine EXCEPT !.melodyTimer = TRUE]

\* setMute(mute)
setMute(mute) ==
  /\ audioService' =
       IF audioService.ctx = NoContext
       THEN [audioService EXCEPT !.isMuted = mute]
       ELSE IF mute
       THEN [audioService EXCEPT !.isMuted = TRUE, !.melodyTimer = FALSE,
                                 !.suspendTimers = @ + 1]
       ELSE IF audioService.melodyTimer
       THEN [audioService EXCEPT !.isMuted = FALSE, !.ctx = "running"]
       ELSE scheduleNextNote([audioService EXCEPT !.isMuted = FALSE,
                                                  !.ctx = "running"])
  /\ UNCHANGED played

\* setTimeout(() => { if(this.isMuted) this.ctx?.suspend(); }, 300)
SuspendCallback ==
  /\ audioService.suspendTimers > 0
  /\ audioService' =
       IF audioService.isMuted /\ audioService.ctx # NoContext
       THEN [audioService EXCEPT !.suspendTimers = @ - 1,
                                 !.ctx = "suspended"]
       ELSE [audioService EXCEPT !.suspendTimers = @ - 1]
  /\ UNCHANGED played

\* startAmbientDrone()
startAmbientDrone ==
  /\ audioService' =
       IF \/ audioService.ctx = NoContext
          \/ ~audioService.musicGain
          \/ ~audioService.isInitialized
       THEN audioService
       ELSE scheduleNextNote([audioService EXCEPT !.ctx = "running"])
  /\ UNCHANGED played

\* window.setTimeout(() => this.scheduleNextNote(), delay)
MelodyCallback ==
  /\ audioService.melodyTimer
  /\ audioService' = scheduleNextNote(audioService)
  /\ UNCHANGED played

\* The body of a sound effect past its guard: this.ctx.resume(), then n
\* oscillators are created, connected to sfxGain and started.  Reading a
\* method of an absent context, or connecting to an absent node, throws.
Sound(call, n) ==
  IF audioService.ctx = NoContext \/ ~audioService.sfxGain
  THEN /\ played' = [call |-> call, result |-> "raised", voices |-> 0]
       /\ UNCHANGED audioService
  ELSE /\ played' = [call |-> call, result |-> "returned", voices |-> n]
       /\ audioService' = [audioService EXCEPT !.ctx = "running"]

\* if (this.isMuted || !this.ctx || !this.sfxGain) return;
Silent(call) ==
  /\ played' = [call |-> call, result |-> "returned", voices |-> 0]
  /\ UNCHANGED audioService

playClick_Unguarded ==
  Sound("playClick", 1)

playClick ==
  IF \/ audioService.isMuted
     \/ audioService.ctx = NoContext
     \/ ~audioService.sfxGain
  THEN Silent("playClick")
  ELSE Sound("playClick", 1)

playSelect ==
  IF \/ audioService.isMuted
     \/ audioService.ctx = NoContext
     \/ ~audioService.sfxGain
  THEN Silent("playSelect")
  ELSE Sound("playSelect", 1)

playSuccess ==
  IF \/ audioService.isMuted
     \/ audioService.ctx = NoContext
     \/ ~audioService.sfxGain
  THEN Silent("playSuccess")
  ELSE Sound("playSuccess", SuccessNotes)

playError ==
  IF \/ audioService.isMuted
     \/ audioService.ctx = NoContext
     \/ ~audioService.sfxGain
  THEN Silent("playError")
  ELSE Sound("playError", 1)

\* Calls and timer runs of the engine; the App component stays as mounted.
AudioInit == (\E outcome \in InitOutcomes : init(outcome)) /\ UNCHANGED vars

AudioSetMute ==
  /\ \E mute \in BOOLEAN :
       /\ mute /\ audioService.ctx # NoContext
            => audioService.suspendTimers < MaxSuspendTimers
       /\ setMute(mute)
  /\ UNCHANGED vars

AudioSuspendCallback == SuspendCallback /\ UNCHANGED vars

AudioStartAmbientDrone == startAmbientDrone /\ UNCHANGED vars

AudioMelodyCallback == MelodyCallback /\ UNCHANGED vars

AudioPlayClick == playClick /\ UNCHANGED vars

AudioPlaySelect == playSelect /\ UNCHANGED vars

AudioPlaySuccess == playSuccess /\ UNCHANGED vars

AudioPlayError == playError /\ UNCHANGED vars

NextAudio ==
  \/ AudioInit
  \/ AudioSetMute
  \/ AudioSuspendCallback
  \/ AudioStartAmbientDrone
  \/ AudioMelodyCallback
  \/ AudioPlayClick
  \/ AudioPlaySelect
  \/ AudioPlaySuccess
  \/ AudioPlayError

SpecAudio == Init /\ [][NextAudio]_<<vars, audioVars>>

(***************************************************************************)
(* Properties                                                              *)
(***************************************************************************)
EvaluatedVerdicts == {"Correct", "WrongGeometry", "WrongCounts", "WrongPlacement"}

Bonds == CountType(currentSlots, BOND)

LonePairs == CountType(currentSlots, LONE_PAIR)

\* the contents of the slots, in slot order
Contents == [i \in 1..Len(currentSlots) |-> currentSlots[i].type]

\* molecules whose attempt has been locked so far
LockedCount == currentIndex + (IF hasSubmitted THEN 1 ELSE 0)

\* C1: once a submit has locked the attempt, no slot click, hybridization
\* selection or any other step short of an advance to the next molecule
\* changes the selected hybridization or the content of a slot, whatever the
\* verdict was.
C1_LockedAttemptIsFrozen ==
  [][(hasSubmitted /\ currentIndex' = currentIndex)
        => UNCHANGED <<selectedHybridization, currentSlots>>]_vars

\* A locked attempt with a failed verdict and a filled slot, which the
\* handlers are still called on.
C1_Witness ==
  /\ hasSubmitted
  /\ lastVerdict = "WrongCounts"
  /\ \E i \in 1..Len(currentSlots) : currentSlots[i].type = LONE_PAIR

\* C2: a submit made while a hybridization is selected leaves the attempt
\* locked, for each of the verdicts Correct, WrongGeometry, WrongCounts and
\* WrongPlacement.
C2_SubmitLocks == lastVerdict \in EvaluatedVerdicts => hasSubmitted

\* The attempt on XeF2 locked by a WrongPlacement verdict.
C2_Witness == hasSubmitted /\ lastVerdict = "WrongPlacement"

\* C3: a submit with no hybridization selected yields the MissingSelection
\* outcome as error feedback, does not lock the attempt and leaves score,
\* molecule index, selection and slots as they were; the attempt stays
\* unlocked until a later submit with a selection.
C3_MissingSelectionDoesNotLock ==
  /\ [](lastVerdict = "MissingSelection" => ~hasSubmitted)
  /\ [][(selectedHybridization = Null /\ handleCheck)
          => /\ feedback' = [type |-> "error",
                             message |-> "Select a geometry shape first."]
             /\ lastVerdict' = "MissingSelection"
             /\ ~hasSubmitted'
             /\ UNCHANGED <<score, currentIndex, selectedHybridization,
                            currentSlots>>]_vars

\* After a MissingSelection outcome the learner has selected a geometry and
\* filled a slot, on an attempt still open.
C3_Witness ==
  /\ lastVerdict = "MissingSelection"
  /\ ~hasSubmitted
  /\ selectedHybridization # Null
  /\ Bonds > 0

\* C4: a step raises the score by exactly 100 when it is a submit whose
\* verdict is Correct, and leaves the score unchanged when it is anything
\* else: a submit with another verdict, another handler, or a continuation.
C4_ScoreChangesOnlyOnCorrect ==
  [][IF /\ selectedHybridization # Null
        /\ Validate(molecule, selectedHybridization, currentSlots).isCorrect
        /\ handleCheck
       THEN score' = score + 100
       ELSE score' = score]_vars

\* Two Correct submits followed by a failed one that kept the score.
C4_Witness ==
  /\ score = 200
  /\ currentIndex = 2
  /\ hasSubmitted
  /\ lastVerdict = "WrongCounts"

\* C5: the score is a multiple of 100, never decreases, and is at most 100
\* times the number of molecules whose attempt has been locked, hence at
\* most 100 * (currentIndex + 1) and at most 1000.
C5_OneScoringSubmitPerMolecule ==
  /\ [](/\ score % 100 = 0
        /\ score <= 100 * LockedCount
        /\ score <= 100 * (currentIndex + 1)
        /\ score <= 1000)
  /\ [][score' >= score]_vars

\* Every molecule of the catalog answered correctly.
C5_Witness == score = 1000 /\ currentIndex = LastIndex /\ hasSubmitted

\* C6: from a locked attempt no step is a submit, and until the advance the
\* attempt stays locked with the verdict it got: a failed attempt is never
\* evaluated again and never becomes Correct.
C6_OneVerdictPerLock ==
  [][hasSubmitted
       => /\ ~handleCheck
          /\ (currentIndex' = currentIndex
                => hasSubmitted' /\ lastVerdict' = lastVerdict)]_vars

\* A locked, failed attempt whose feedback a late hint has replaced.
C6_Witness ==
  /\ hasSubmitted
  /\ lastVerdict = "WrongGeometry"
  /\ feedback.type = "info"

\* C7: whenever the selected hybridization differs from the molecule's, the
\* verdict is WrongGeometry, whatever the slots hold.
C7_GeometryCheckedFirst ==
  (lastVerdict # "None" /\ selectedHybridization # molecule.hybridization)
     => lastVerdict = "WrongGeometry"

\* A WrongGeometry verdict on a configuration whose counts are wrong as well.
C7_Witness ==
  /\ lastVerdict = "WrongGeometry"
  /\ molecule.formula = "NH3"
  /\ selectedHybridization = SP2
  /\ Bonds # molecule.bondingPairs

\* C8: with the molecule's hybridization selected, the verdict is WrongCounts
\* exactly when the number of Bond slots differs from bondingPairs or the
\* number of LonePair slots differs from lonePairs, wherever the pairs sit.
C8_CountsBeforePlacement ==
  (lastVerdict # "None" /\ selectedHybridization = molecule.hybridization)
     => (lastVerdict = "WrongCounts"
           <=> (Bonds # molecule.bondingPairs \/ LonePairs # molecule.lonePairs))

\* WrongCounts on XeF2 with the bonds right, the lone pairs not, and a lone
\* pair on an axial slot.
C8_Witness ==
  /\ lastVerdict = "WrongCounts"
  /\ molecule.formula = "XeF2"
  /\ Bonds = molecule.bondingPairs
  /\ currentSlots[1].type = LONE_PAIR

\* C9: WrongPlacement is the verdict only of a molecule that carries a
\* placement rule, which in the catalog is XeF2 alone.
C9_PlacementOnlyWithRule ==
  lastVerdict = "WrongPlacement"
     => HasPlacementRule(molecule) /\ molecule.formula = "XeF2"

\* A molecule without a rule evaluated Correct with a lone pair on a slot
\* that is not equatorial.
C9_Witness ==
  /\ lastVerdict = "Correct"
  /\ ~HasPlacementRule(molecule)
  /\ \E i \in 1..Len(currentSlots) :
        currentSlots[i].type = LONE_PAIR /\ currentSlots[i].positionType # EQUATORIAL

\* C10: for XeF2 with the trigonal-bipyramidal geometry and 2 Bond and 3
\* LonePair slots, the verdict is WrongPlacement when a LonePair is on an
\* axial slot and Correct otherwise; Bond on slots 0 and 1 with LonePair on
\* slots 2, 3 and 4 is the only configuration of XeF2 evaluated Correct.
C10_XeF2Placement ==
  (lastVerdict # "None" /\ molecule.formula = "XeF2")
     => /\ (selectedHybridization = SP3D /\ Bonds = 2 /\ LonePairs = 3)
             => IF \E i \in 1..Len(currentSlots) :
                      currentSlots[i].type = LONE_PAIR
                         /\ currentSlots[i].positionType = AXIAL
                  THEN lastVerdict = "WrongPlacement"
                  ELSE lastVerdict = "Correct"
        /\ lastVerdict = "Correct"
             <=> /\ selectedHybridization = SP3D
                 /\ Contents = <<BOND, BOND, LONE_PAIR, LONE_PAIR, LONE_PAIR>>

\* XeF2 evaluated Correct.
C10_Witness == lastVerdict = "Correct" /\ molecule.formula = "XeF2"

\* the verdict of a submit of molecule m with selection hyb and slots
Verdict(m, hyb, slots) == VerdictOf(m, Validate(m, hyb, slots))

\* the arrangement of b Bond and l LonePair slots on the template of hyb that
\* fills the slots in template order: the bonds, then the lone pairs
Arranged(hyb, b, l) ==
  [i \in 1..Len(NewSlots(hyb)) |->
     [NewSlots(hyb)[i] EXCEPT
        !.type = IF i <= b THEN BOND
                 ELSE IF i <= b + l THEN LONE_PAIR
                 ELSE EMPTY]]

\* C11: for a molecule without a placement rule, a configuration gets the
\* verdict of the in-order arrangement of as many Bond and LonePair slots on
\* the same selected hybridization, so any two configurations with the same
\* counts get the same verdict; and with the molecule's hybridization and
\* exactly bondingPairs Bond and lonePairs LonePair slots that verdict is
\* Correct.
C11_PlacementInsensitive ==
  (lastVerdict # "None" /\ ~HasPlacementRule(molecule))
     => /\ lastVerdict =
              Verdict(molecule, selectedHybridization,
                      Arranged(selectedHybridization, Bonds, LonePairs))
        /\ (/\ selectedHybridization = molecule.hybridization
            /\ Bonds = molecule.bondingPairs
            /\ LonePairs = molecule.lonePairs)
             => lastVerdict = "Correct"

\* Water evaluated Correct with its lone pairs on the first and third slot.
C11_Witness ==
  /\ lastVerdict = "Correct"
  /\ molecule.formula = "H2O"
  /\ Contents = <<LONE_PAIR, BOND, LONE_PAIR, BOND>>

\* C12: the verdict of a submit is the value of one function of the molecule,
\* the selected hybridization and the slot contents: whatever the score, the
\* feedback, the loading flag and the sound setting are, and however the
\* configuration was reached, a submit records that value, and the locked
\* attempt keeps showing it.
C12_VerdictIsFunctionOfInputs ==
  /\ [](lastVerdict \in EvaluatedVerdicts
          => lastVerdict = Verdict(molecule, selectedHybridization, currentSlots))
  /\ [][(selectedHybridization # Null /\ handleCheck)
          => lastVerdict' = Verdict(molecule, selectedHybridization, currentSlots)]_vars

\* A failed submit made with the sound off, points on the board and a hint
\* request in flight.
C12_Witness ==
  /\ lastVerdict = "WrongCounts"
  /\ isMuted
  /\ score = 100
  /\ isLoadingAI

\* C13: a submit leaves the slots (id, content, angle, tilt and position kind
\* of each), the selected hybridization and the molecule index as they were.
C13_SubmitMutatesNoInput ==
  [][handleCheck
       => UNCHANGED <<currentSlots, selectedHybridization, currentIndex>>]_vars

\* Ammonia evaluated Correct, its slots as the learner left them.
C13_Witness ==
  /\ hasSubmitted
  /\ lastVerdict = "Correct"
  /\ Contents = <<BOND, BOND, BOND, LONE_PAIR>>

\* the content a click is to give a slot that holds t
Cycled(t) ==
  CASE t = EMPTY -> BOND
    [] t = BOND -> LONE_PAIR
    [] t = LONE_PAIR -> EMPTY

\* C14: on an unlocked attempt with a hybridization selected, a click on a
\* slot takes its content from Empty to Bond, from Bond to LonePair and from
\* LonePair to Empty, and the slot update of three clicks on the same slot
\* gives back the slot sequence it started from.
C14_ClickCycles ==
  /\ [](\A id \in SlotIds :
           CycleSlot(CycleSlot(CycleSlot(currentSlots, id), id), id) = currentSlots)
  /\ [][\A id \in SlotIds :
           (/\ ~hasSubmitted /\ selectedHybridization # Null
            /\ currentSlots' # currentSlots
            /\ handleSlotClick(id))
              => /\ currentSlots' = CycleSlot(currentSlots, id)
                 /\ currentSlots'[id + 1].type = Cycled(currentSlots[id + 1].type)]_vars

\* An open attempt whose first slot was clicked twice and second slot once.
C14_Witness ==
  /\ ~hasSubmitted
  /\ selectedHybridization = SP
  /\ Contents = <<LONE_PAIR, BOND>>

\* C15: a slot click changes nothing of the slots but the content of the slot
\* with the given id: the other slots, the number of slots, and the clicked
\* slot's id, angle, tilt and position kind stay as they were, and a click
\* whose id no slot has leaves all slots as they were.
C15_ClickChangesOneContent ==
  [][\A id \in ClickIds :
        handleSlotClick(id)
           => /\ Len(currentSlots') = Len(currentSlots)
              /\ \A i \in 1..Len(currentSlots) :
                    /\ currentSlots[i].id # id => currentSlots'[i] = currentSlots[i]
                    /\ currentSlots'[i].id = currentSlots[i].id
                    /\ currentSlots'[i].angle = currentSlots[i].angle
                    /\ currentSlots'[i].tilt = currentSlots[i].tilt
                    /\ currentSlots'[i].positionType = currentSlots[i].positionType
              /\ id \notin SlotIds => currentSlots' = currentSlots]_vars

\* Six octahedral slots of which the one with id 3 alone was clicked.
C15_Witness ==
  /\ ~hasSubmitted
  /\ selectedHybridization = SP3D2
  /\ Contents = <<EMPTY, EMPTY, EMPTY, BOND, EMPTY, EMPTY>>

\* C16: selecting a hybridization on an unlocked attempt selects it and
\* produces one slot per entry of its template, in template order: the slot
\* at entry i (counted from zero) has id i, content Empty, and the angle, tilt
\* and position kind of that entry.
C16_SelectBuildsTemplateSlots ==
  [][\A hyb \in HybridizationType :
        (~hasSubmitted /\ handleHybridizationSelect(hyb))
           => /\ selectedHybridization' = hyb
              /\ Len(currentSlots') = Len(GEOMETRY_SLOTS[hyb])
              /\ \A i \in 1..Len(GEOMETRY_SLOTS[hyb]) :
                    currentSlots'[i] =
                       [id |-> i - 1,
                        angle |-> GEOMETRY_SLOTS[hyb][i].angle,
                        tilt |-> GEOMETRY_SLOTS[hyb][i].tilt,
                        type |-> EMPTY,
                        positionType |-> GEOMETRY_SLOTS[hyb][i].type]]_vars

\* The five fresh slots of the trigonal bipyramid.
C16_Witness ==
  /\ ~hasSubmitted
  /\ selectedHybridization = SP3D
  /\ Contents = <<EMPTY, EMPTY, EMPTY, EMPTY, EMPTY>>
  /\ currentSlots[1].positionType = AXIAL
  /\ currentSlots[5].positionType = EQUATORIAL

\* a selection of hyb that leaves hyb selected over all-Empty slots of its
\* template
SelectsAfresh(hyb) ==
  /\ handleHybridizationSelect(hyb)
  /\ selectedHybridization' = hyb
  /\ Len(currentSlots') = Len(GEOMETRY_SLOTS[hyb])
  /\ \A i \in 1..Len(currentSlots') : currentSlots'[i].type = EMPTY

\* C17: while the attempt is unlocked, every hybridization, the selected one
\* included, can be selected, and a selection made over an earlier one leaves
\* the newly selected hybridization with all-Empty slots of its template,
\* whatever Bond and LonePair contents the slots held.
C17_ReselectReinitializes ==
  /\ [](~hasSubmitted => \A hyb \in HybridizationType : ENABLED SelectsAfresh(hyb))
  /\ [][\A hyb \in HybridizationType :
          (/\ ~hasSubmitted /\ selectedHybridization # Null
           /\ handleHybridizationSelect(hyb))
             => /\ selectedHybridization' = hyb
                /\ Len(currentSlots') = Len(GEOMETRY_SLOTS[hyb])
                /\ \A i \in 1..Len(currentSlots') : currentSlots'[i].type = EMPTY]_vars

\* An open attempt with a geometry selected and every slot filled, on which a
\* selection is still to come.
C17_Witness ==
  /\ ~hasSubmitted
  /\ selectedHybridization = SP3
  /\ Contents = <<BOND, LONE_PAIR, BOND, LONE_PAIR>>
  /\ ENABLED SelectsAfresh(SP3)

\* C18: in every reachable state the number of slots is the length of the
\* selected hybridization's template, and there are no slots exactly when
\* no hybridization is selected.
C18_SlotCountMatchesTemplate ==
  /\ selectedHybridization = Null <=> Len(currentSlots) = 0
  /\ selectedHybridization # Null
       => Len(currentSlots) = Len(GEOMETRY_SLOTS[selectedHybridization])

\* The two linear slots still in place after the submit locked the attempt
\* and the success message arrived.
C18_Witness ==
  /\ selectedHybridization = SP
  /\ Len(currentSlots) = 2
  /\ hasSubmitted
  /\ feedback.type = "success"

\* C19: in every reachable state the slots carry the ids 0..n-1 in order, and
\* the slot with id i has the position kind of entry i of the selected
\* hybridization's template, whatever clicks it has received.
C19_SlotIdentityIsStable ==
  /\ \A i \in 1..Len(currentSlots) : currentSlots[i].id = i - 1
  /\ selectedHybridization # Null
       => \A i \in 1..Len(currentSlots) :
             currentSlots[i].positionType
                = GEOMETRY_SLOTS[selectedHybridization][i].type

\* A clicked equatorial slot of the trigonal bipyramid, on a locked attempt.
C19_Witness ==
  /\ hasSubmitted
  /\ selectedHybridization = SP3D
  /\ Contents = <<EMPTY, EMPTY, BOND, EMPTY, EMPTY>>
  /\ currentSlots[3].id = 2
  /\ currentSlots[3].positionType = EQUATORIAL

\* the steric number of a hybridization class
StericNumberOf(h) ==
  CASE h = SP -> 2
    [] h = SP2 -> 3
    [] h = SP3 -> 4
    [] h = SP3D -> 5
    [] h = SP3D2 -> 6

\* C20: every hybridization class has a slot template, and the template has
\* as many entries as the class's steric number (2, 3, 4, 5, 6), so that the
\* slots of a selected class are that many.
C20_TemplateLengthIsStericNumber ==
  /\ DOMAIN GEOMETRY_SLOTS = HybridizationType
  /\ \A h \in HybridizationType : Len(GEOMETRY_SLOTS[h]) = StericNumberOf(h)
  /\ selectedHybridization # Null
       => Len(currentSlots) = StericNumberOf(selectedHybridization)

\* The octahedral class selected, with its six slots.
C20_Witness ==
  /\ selectedHybridization = SP3D2
  /\ Len(currentSlots) = 6
  /\ currentSlots[6].type = BOND

\* C21: the catalog has ten molecules, and for each of them bondingPairs +
\* lonePairs is its stericNumber and its stericNumber is the length of the
\* slot template of its hybridization, so that the molecule shown can be
\* answered on the slots of its own geometry.
C21_CatalogStericNumbers ==
  /\ Len(MOLECULES) = 10
  /\ \A k \in 1..Len(MOLECULES) :
        /\ MOLECULES[k].bondingPairs + MOLECULES[k].lonePairs
              = MOLECULES[k].stericNumber
        /\ MOLECULES[k].stericNumber
              = Len(GEOMETRY_SLOTS[MOLECULES[k].hybridization])
  /\ lastVerdict = "Correct"
       => Bonds + LonePairs = molecule.stericNumber
          /\ Len(currentSlots) = molecule.stericNumber

\* The chlorate ion answered on the four tetrahedral slots.
C21_Witness ==
  /\ lastVerdict = "Correct"
  /\ molecule.formula = "ClO3-"
  /\ Len(currentSlots) = 4
  /\ LonePairs = 1

\* C22: the slots of a selected linear, trigonal planar, tetrahedral or
\* octahedral class all have position kind General; a slot of kind Axial or
\* Equatorial belongs to the trigonal bipyramid.
C22_GeneralOutsideBipyramid ==
  /\ selectedHybridization \in {SP, SP2, SP3, SP3D2}
       => \A i \in 1..Len(currentSlots) : currentSlots[i].positionType = GENERAL
  /\ \A i \in 1..Len(currentSlots) :
        currentSlots[i].positionType \in {AXIAL, EQUATORIAL}
           => selectedHybridization = SP3D

\* C23: an advance from a locked attempt on a molecule that is not the last
\* raises the molecule index by exactly one and leaves a fresh attempt: no
\* hybridization selected, no slots, the lock and the feedback cleared; the
\* score is kept.
C23_AdvanceResetsAttempt ==
  [][(hasSubmitted /\ currentIndex < LastIndex /\ handleNext)
       => /\ currentIndex' = currentIndex + 1
          /\ selectedHybridization' = Null
          /\ currentSlots' = << >>
          /\ ~hasSubmitted'
          /\ feedback' = NullFeedback
          /\ score' = score]_vars

\* The fresh attempt on the second molecule, with the points of the first.
C23_Witness ==
  /\ currentIndex = 1
  /\ score = 100
  /\ ~hasSubmitted
  /\ selectedHybridization = Null
  /\ currentSlots = << >>
  /\ feedback = NullFeedback

\* the feedback of the completed protocol
Completed ==
  [type |-> "info", message |-> "All samples analyzed. Refresh to restart protocol."]

\* C24: the molecule index never exceeds the last index; an advance on the
\* last molecule shows the completed feedback and leaves index, score, lock,
\* selection and slots as they were, and an advance repeated after it
\* changes nothing at all.
C24_AdvanceOnLastIsIdempotent ==
  /\ [](currentIndex <= LastIndex)
  /\ []((isLastMolecule /\ hasSubmitted /\ ~showIntro /\ feedback = Completed)
          => ENABLED (NextSample /\ UNCHANGED vars))
  /\ [][(isLastMolecule /\ handleNext)
          => /\ feedback' = Completed
             /\ UNCHANGED <<currentIndex, score, hasSubmitted,
                            selectedHybridization, currentSlots>>]_vars

\* The last molecule's locked attempt after an advance.
C24_Witness ==
  /\ isLastMolecule
  /\ hasSubmitted
  /\ feedback = Completed
  /\ selectedHybridization = SP3

\* C25: a reset on an unlocked attempt clears the selection and the slots
\* and keeps score and molecule index; a reset on a locked attempt changes
\* nothing.
C25_ResetOnlyBeforeLock ==
  [][handleReset
       => IF hasSubmitted
            THEN UNCHANGED vars
            ELSE /\ selectedHybridization' = Null
                 /\ currentSlots' = << >>
                 /\ UNCHANGED <<score, currentIndex>>]_vars

\* A locked attempt with a filled slot, on which a reset is called to no
\* effect.
C25_Witness ==
  /\ hasSubmitted
  /\ lastVerdict = "WrongGeometry"
  /\ Bonds = 1
  /\ ENABLED (handleReset /\ UNCHANGED vars)

\* the state of the game proper: selection, slots, lock, score, molecule
Core == <<selectedHybridization, currentSlots, hasSubmitted, score, currentIndex>>

\* Core after a submit of the attempt, from Core alone
CoreAfterCheck ==
  <<selectedHybridization, currentSlots, TRUE,
    IF Verdict(molecule, selectedHybridization, currentSlots) = "Correct"
      THEN score + 100 ELSE score,
    currentIndex>>

\* Core after an advance, from Core alone
CoreAfterNext ==
  IF currentIndex < LastIndex
    THEN <<Null, << >>, FALSE, score, currentIndex + 1>>
    ELSE Core

\* C26: a provider request that is outstanding gates no core transition.
\* Whatever requests are pending and whether or not the loading flag is
\* set, each control the view offers (select a geometry, cycle a slot,
\* submit, reset, advance) is enabled, and its effect on selection, slots,
\* lock, score and molecule index is the one determined by those five
\* alone, hence the same as with no request pending.
C26_RequestsGateNothing ==
  /\ ~showIntro /\ ~hasSubmitted
       => /\ \A hyb \in HybridizationType :
                /\ ENABLED (Select /\ selectedHybridization' = hyb)
                /\ ~ENABLED (Select /\ selectedHybridization' = hyb
                               /\ Core' # <<hyb, NewSlots(hyb), FALSE, score, currentIndex>>)
          /\ ENABLED Reset
          /\ ~ENABLED (Reset /\ Core' # <<Null, << >>, FALSE, score, currentIndex>>)
  /\ ~showIntro /\ ~hasSubmitted /\ selectedHybridization # Null /\ ClickWithinBounds
       => \A id \in SlotIds :
             /\ ENABLED (SlotClick /\ currentSlots' = CycleSlot(currentSlots, id))
             /\ ~ENABLED (handleSlotClick(id)
                            /\ Core' # <<selectedHybridization, CycleSlot(currentSlots, id),
                                         FALSE, score, currentIndex>>)
  /\ ~showIntro /\ ~hasSubmitted /\ selectedHybridization # Null
       /\ Outstanding < MaxOverlap
       => /\ ENABLED AsyncCheck
          /\ ~ENABLED (AsyncCheck /\ Core' # CoreAfterCheck)
  /\ ~showIntro /\ hasSubmitted
       => /\ ENABLED NextSample
          /\ ~ENABLED (NextSample /\ Core' # CoreAfterNext)

\* A slot is about to be cycled while a hint request is outstanding and the
\* loading flag is set.
C26_Witness ==
  /\ Outstanding > 0
  /\ isLoadingAI
  /\ ~hasSubmitted
  /\ selectedHybridization = SP2
  /\ Bonds = 1
  /\ ENABLED (SlotClick /\ Bonds' = 2)

\* C27: the loading flag is set in every state in which at least one
\* provider request is outstanding, also when a hint request and a success
\* request overlap and one of them completes first.
C27_LoadingWhileOutstanding == Outstanding > 0 => isLoadingAI

\* C28: a hint or success response that arrives after the learner has
\* advanced to another molecule is discarded: the step that delivers it
\* leaves the feedback of the new molecule's attempt as it is.
C28_StaleResponseDiscarded ==
  [][\A r \in AllRequests, o \in ProviderOutcomes :
        (~r.fresh /\ (ResolveHint(r, o) \/ ResolveSuccess(r, o)))
           => UNCHANGED feedback]_vars

\* outcomes in which the provider gives no answer: no API key, or a failure
FailingOutcomes == {"no_key", "throws"}

\* the fixed texts of getHint and of getSuccessMessage for those outcomes
HintFallbacks ==
  {"Gemini API Key is missing. Please check your configuration.",
   "Check the number of bonding regions and lone pairs around the central atom."}

SuccessFallbacks ==
  {"Great job! That structure is stable.", "Excellent work! Structure stabilized."}

\* C29: getHint and getSuccessMessage never propagate an error. With the
\* API key absent or the provider failing each returns a fixed fallback
\* text, never a rejection, and the step that delivers it shows that text
\* and leaves lock, score and verdict as they were.
C29_ProviderFailureFallsBack ==
  [][\A r \in AllRequests, o \in FailingOutcomes :
        /\ ResolveHint(r, o)
             => /\ feedback' = [type |-> "info", message |-> getHint(o)]
                /\ feedback'.message \in HintFallbacks
                /\ UNCHANGED <<hasSubmitted, score, lastVerdict>>
        /\ ResolveSuccess(r, o)
             => /\ feedback' = [type |-> "success", message |-> getSuccessMessage(o)]
                /\ feedback'.message \in SuccessFallbacks
                /\ UNCHANGED <<hasSubmitted, score, lastVerdict>>]_vars

\* The success request of a correct attempt has failed: the fallback is
\* shown, the attempt is locked and the points stand.
C29_Witness ==
  /\ feedback = [type |-> "success", message |-> "Excellent work! Structure stabilized."]
  /\ hasSubmitted
  /\ lastVerdict = "Correct"
  /\ score = 100
  /\ Outstanding = 0

\* the learner's own actions
LearnerStep == Select \/ Check \/ NextSample

\* the last molecule, locked
LastLocked == isLastMolecule /\ hasSubmitted

\* Learner steps still needed at most, four per molecule: from a selection
\* whose submit would start a request beyond MaxPending (3) select again,
\* from no selection (2) select, from a selection (1) submit, from a locked
\* attempt (0) advance.
Rank ==
  4 * (LastIndex - currentIndex)
    + (IF hasSubmitted THEN 0
       ELSE IF selectedHybridization = Null THEN 2
       ELSE IF CheckWithinBounds THEN 1
       ELSE 3)

\* C30: the provider never blocks progression. In every reachable state
\* after the game has begun, whatever requests are outstanding or have
\* completed or failed, either the last molecule is locked or a learner
\* action (select, submit, advance) is enabled that brings it strictly
\* closer; so learner actions alone, with no request completing, reach the
\* last molecule locked.
C30_LearnerAloneProgresses ==
  ~showIntro => LastLocked \/ ENABLED (LearnerStep /\ Rank' < Rank)

\* The last molecule locked with the hint requested on the first molecule
\* still outstanding.
C30_Witness ==
  /\ LastLocked
  /\ isLoadingAI
  /\ CopiesIn(Request("hint", FALSE), pending) = 1
  /\ score = 0

\* C31: while the introduction is shown no selection, slot cycle, submit,
\* reset or advance takes effect: selection, slots, lock, score and molecule
\* index keep their initial values until handleStartGame has run.
C31_IntroFreezesGame ==
  showIntro
    => /\ selectedHybridization = Null
       /\ currentSlots = << >>
       /\ ~hasSubmitted
       /\ score = 0
       /\ currentIndex = 0

\* the feedback of the submit that found the counts b, l in the slots of
\* the selected geometry
MessageFor(b, l) ==
  ErrorMessage(Validate(molecule, selectedHybridization,
                        Arranged(selectedHybridization, b, l)).failReason)

\* the counts of Bond and LonePair slots that the selected geometry can hold
\* and that are not the molecule's
WrongCountPairs ==
  {p \in (0..Len(currentSlots)) \X (0..Len(currentSlots)) :
     /\ p[1] + p[2] <= Len(currentSlots)
     /\ p # <<molecule.bondingPairs, molecule.lonePairs>>}

\* the text that states the counts the molecule expects
ExpectedCountsText ==
  "Analysis Failed. Incorrect orbital contents. Expected "
     \o ToString(molecule.bondingPairs) \o " Bonds and "
     \o ToString(molecule.lonePairs) \o " Lone Pairs. Proceed to next sample."

C33_AlwaysResolvesToText ==
  /\ feedback.type = "info" => feedback.message \notin {Undefined, ""}
  /\ feedback.type = "success" => feedback.message \notin {Undefined, ""}

\* C34: a Correct verdict implies that no slot is Empty: every slot of a
\* configuration evaluated Correct holds a Bond or a Lone Pair.
C34_CorrectLeavesNoSlotEmpty ==
  lastVerdict = "Correct"
    => /\ currentSlots # << >>
       /\ \A i \in 1..Len(currentSlots) : currentSlots[i].type \in {BOND, LONE_PAIR}

\* Sulfur hexafluoride evaluated Correct with all six slots bonded.
C34_Witness ==
  /\ lastVerdict = "Correct"
  /\ molecule.formula = "SF6"
  /\ CountType(currentSlots, EMPTY) = 0
  /\ Len(currentSlots) = 6

\* C35: the molecule index stays within 0..9 and never decreases; it changes
\* only through an advance, only by +1, and only while the current attempt
\* is locked with an evaluated verdict, so no molecule is skipped.
C35_IndexAdvancesOnlyFromLock ==
  /\ [](currentIndex \in 0..9)
  /\ [][currentIndex' # currentIndex
          => /\ handleNext
             /\ currentIndex' = currentIndex + 1
             /\ hasSubmitted
             /\ lastVerdict \in EvaluatedVerdicts]_vars

\* The third molecule reached with one of the first two answered correctly.
C35_Witness ==
  /\ currentIndex = 2
  /\ score = 100
  /\ lastVerdict = "None"
  /\ ~hasSubmitted

\* C36: once an attempt is locked and the feedback of its verdict (success
\* or error) is shown, the feedback stays as it is until the advance; a
\* hint requested before the submit and delivered after it does not replace
\* it.
C36_VerdictFeedbackStays ==
  [][(hasSubmitted /\ feedback.type \in {"success", "error"} /\ ~handleNext)
       => feedback' = feedback]_vars

\* C37: the last molecule locked is terminal: from it no step, of the
\* learner or of a callback, changes score, molecule index, lock, selected
\* hybridization or slots.
C37_LastLockedIsTerminal ==
  [][LastLocked
       => UNCHANGED <<score, currentIndex, hasSubmitted, selectedHybridization,
                      currentSlots>>]_vars

\* The last molecule locked on a failed verdict, after a late hint was
\* delivered to it.
C37_Witness ==
  /\ LastLocked
  /\ lastVerdict = "WrongGeometry"
  /\ feedback.type = "info"
  /\ feedback # Completed
  /\ Outstanding = 0

\* C38: in the alternate variant each molecule contributes at most 100
\* points: the score never exceeds 100 per molecule reached, and after a
\* Correct submit no further step on the same molecule raises the score.
C38_VariantScoresOncePerMolecule ==
  /\ [](score <= 100 * (currentIndex + 1))
  /\ [][(lastVerdict = "Correct" /\ currentIndex' = currentIndex)
          => score' = score]_vars

\* C39: in the alternate variant Next Sample is offered only after a submit
\* on the current molecule, and a success message that belongs to a submit
\* made on an earlier molecule never makes it offered.
C39_VariantNextNeedsOwnVerdict ==
  /\ [](Succeeded => lastVerdict # "None")
  /\ [][\A r \in VariantRequests, o \in ProviderOutcomes :
           (~r.fresh /\ ~Succeeded /\ ResolveSuccess(r, o)) => ~Succeeded']_vars

(***************************************************************************)
(* C40: sound effects never fail or block the caller: in every state of    *)
(* the engine (never initialized, initialization failed, muted, unmuted)   *)
(* playClick, playSelect, playSuccess and playError can be called and      *)
(* return without raising, and while the engine is muted or uninitialized  *)
(* none of them starts an oscillator.                                      *)
(***************************************************************************)
AnySoundEffect == playClick \/ playSelect \/ playSuccess \/ playError

====
